---- MODULE Spec2Model ----
(***************************************************************************)
(* Order / payment / ticket-issuance pipeline of the event-ticketing       *)
(* backend (src/src/services/OrderService.js) over a MySQL store accessed  *)
(* through Prisma interactive transactions.                                *)
(*                                                                         *)
(* Transactions run under InnoDB's default REPEATABLE READ: plain reads    *)
(* are non-locking reads of the snapshot taken at the transaction's first  *)
(* read; writes take row locks, act on the latest committed row and become *)
(* visible at commit.  A transaction is therefore modelled by its first    *)
(* read (which fixes every later read) and by one step that applies its    *)
(* writes to the committed state, or rolls back.                           *)
(***************************************************************************)
EXTENDS Integers, Sequences, FiniteSets, TLC

\* ---------------------------------------------------------------- bounds
MaxRequests == 2
MaxItems == 2
MaxCodes == 4
MaxClock == 6

\* ------------------------------------------------------------ vocabulary
NULL == 0 - 1

Users == {1, 2}

Slots == 1..MaxRequests

TicketCodes == 1..MaxCodes

\* transaction_status values a gateway payload can carry; "refund" stands
\* for any value the switch does not list
TransactionStatuses ==
  {"capture", "settlement", "deny", "cancel", "expire", "pending", "refund"}

\* paymentAmount values a manualCheckout caller can send; NaN is an amount
\* that Number() does not parse
NaN == 0 - 2

PaymentAmounts == {NaN, 10, 30}

\* paymentDetails.transactionReference of a manualCheckout caller and
\* payload.transaction_id of the gateway
ManualReference == "receipt"

GatewayReference == "txn"

\* paymentDetails.paymentMethod of a manualCheckout caller; the route requires
\* one ("" would be none sent)
PaymentMethodInputs == {"cash"}

TerminalStatuses == {"paid", "failed", "expired", "canceled"}

\* Catalogue rows (model TicketType), as createTicketType leaves them (quota
\* equal to quantity, sold 0).  Rows 1 and 3 belong to the same event, row 3
\* has no quota, row 4 is soft-deleted.
InitTicketTypes ==
  <<[eventId |-> 1, quantity |-> 1, quota |-> 1, sold |-> 0, price |-> 10,
     deleted |-> FALSE],
    [eventId |-> 2, quantity |-> 2, quota |-> 2, sold |-> 0, price |-> 20,
     deleted |-> FALSE],
    [eventId |-> 1, quantity |-> 1, quota |-> NULL, sold |-> 0, price |-> 10,
     deleted |-> FALSE],
    [eventId |-> 2, quantity |-> 1, quota |-> 1, sold |-> 0, price |-> 20,
     deleted |-> TRUE]>>

TicketTypeIds == DOMAIN InitTicketTypes

\* Time is counted in half hours; the check-in window opens one hour before
\* the start of the event
LeadWindow == 2

\* Events (model Event), by id: both published; the window of event 1 opens
\* at time 3, that of event 2 at time 2
InitEvents ==
  <<[status |-> "published", startTime |-> 5, capacity |-> 3, deleted |-> FALSE],
    [status |-> "published", startTime |-> 4, capacity |-> 3, deleted |-> FALSE]>>

EmptyDb ==
  [ticketTypes |-> InitTicketTypes, events |-> InitEvents, orders |-> <<>>,
   tickets |-> {}, notifications |-> <<>>]

\* Item lists a createOrder request can carry: 1..MaxItems ticket type ids
RECURSIVE SeqsUpTo(_, _)
SeqsUpTo(S, n) ==
  IF n = 0 THEN {<<>>}
  ELSE LET shorter == SeqsUpTo(S, n - 1)
       IN shorter \cup {Append(s, x) : s \in {t \in shorter : Len(t) = n - 1}, x \in S}

ItemLists == SeqsUpTo(TicketTypeIds, MaxItems) \ {<<>>}

VARIABLES
  db,     \* committed rows: ticketTypes, orders, tickets, notifications
  req,    \* the requests in flight, one per slot
  clock,  \* the time new Date() returns
  resp    \* the response the last step returned, if it returned one

vars == <<db, req, clock, resp>>

\* success, status and message are the returned object, status being the
\* HTTP status the controller answers with;
\* orderId is the order the request named, incs the number of increments a
\* createOrder had issued when it returned, settled whether
\* _processSuccessfulOrder returned true, cause the error its catch block
\* logged when it returned false, issued the number of tickets its
\* transaction had inserted when it ended, transactionStatus the
\* payload.transaction_status the switch of a callback mapped, uniqueCode
\* the ticket code a checkInTicket named
NoResponse ==
  [op |-> "none", success |-> FALSE, status |-> 0, message |-> "none",
   orderId |-> 0, incs |-> 0, settled |-> FALSE, cause |-> "none",
   issued |-> 0, transactionStatus |-> "none", uniqueCode |-> 0]

Response(op, ok, st, msg, o, n) ==
  [op |-> op, success |-> ok, status |-> st, message |-> msg,
   orderId |-> o, incs |-> n, settled |-> FALSE, cause |-> "none",
   issued |-> 0, transactionStatus |-> "none", uniqueCode |-> 0]

\* What the gateway receives for a result of the service: the controller
\* answers res.status(200) with the message of the result, whatever its
\* success field
GatewayAckOnSuccessOnly(ok, msg, o) ==
  Response("handlePaymentCallback", ok, IF ok THEN 200 ELSE 500, msg, o, 0)

GatewayAck(ok, msg, o) ==
  Response("handlePaymentCallback", ok, 200, msg, o, 0)

\* ------------------------------------------------------- storage helpers
\* tx.ticketType.findUnique({ where: { id, deletedAt: null } })
TicketTypeFound(view, id) ==
  id \in DOMAIN view.ticketTypes /\ ~view.ticketTypes[id].deleted

\* prisma.order.findUnique({ where: { orderCode } }); an order's code is
\* identified with its position in the orders table
OrderFound(view, code) == code \in DOMAIN view.orders

LineEvents(view, order) ==
  {view.ticketTypes[order.orderItems[i].ticketTypeId].eventId :
     i \in DOMAIN order.orderItems}

\* tx.order.count({ userId, paymentStatus in [paid, pending],
\*                  orderItems some ticketType.eventId })
ExistingOrderCountForEvent(view, userId, eventId) ==
  Cardinality({o \in DOMAIN view.orders :
     /\ view.orders[o].userId = userId
     /\ view.orders[o].paymentStatus \in {"paid", "pending"}
     /\ eventId \in LineEvents(view, view.orders[o])})

\* data: { sold: { increment: 1 } } / { decrement: 1 } on the committed row
AddSold(tts, id, d) == [tts EXCEPT ![id].sold = @ + d]

RECURSIVE AddSoldAll(_, _, _)
AddSoldAll(tts, ids, d) ==
  IF ids = <<>> THEN tts
  ELSE AddSoldAll(AddSold(tts, Head(ids), d), Tail(ids), d)

\* the ticket types of the lines of an order, in the order of the loop over
\* order.orderItems
ItemTypeIdsFirstOnly(order) ==
  [i \in DOMAIN order.orderItems \cap {1} |-> order.orderItems[i].ticketTypeId]

ItemTypeIds(order) ==
  [i \in DOMAIN order.orderItems |-> order.orderItems[i].ticketTypeId]

\* A transaction that throws leaves the committed state as it was
RollbackKeepsWrites(committed, working) == working

Rollback(committed, working) == committed

\* order codes a request can name: those of the orders, and one of no order
OrderCodes == 1..(Len(db.orders) + 1)

\* a request takes the first slot that has served none
CanStart(r) ==
  req[r].pc = "idle" /\ (IF r = 1 THEN TRUE ELSE req[r - 1].pc # "idle")

\* -------------------------------------------------------------- createOrder
CreateAcc0 ==
  [err |-> "none", processed |-> {}, total |-> 0, data |-> <<>>, incs |-> <<>>,
   seen |-> <<>>]

IdleRequest ==
  [kind |-> "idle", pc |-> "idle", userId |-> 0, orderId |-> 0,
   newStatus |-> "pending", method |-> "null", reference |-> "null",
   transactionStatus |-> "none", uniqueCode |-> 0, now |-> 0,
   update |-> [id |-> 0, price |-> NULL, quantity |-> NULL, quota |-> NULL],
   acc |-> CreateAcc0]

DoneRequest == [IdleRequest EXCEPT !.pc = "done"]

\* CHECK 1 of the loop: processedEventIds.has(currentItemEventId)
SameEventIgnored(processed, eventId) == FALSE

SameEvent(processed, eventId) == eventId \in processed

\* the quota test of the loop
SoldOut(tt) == tt.sold >= tt.quota

\* one iteration of the loop over items; every read is of the snapshot.
\* incs lists the rows whose increment was issued, seen the sold value read
\* for each.
CreateItem(userId, snap, acc, id) ==
  IF ~TicketTypeFound(snap, id) THEN [acc EXCEPT !.err = "not_found"]
  ELSE LET tt == snap.ticketTypes[id] IN
    IF SameEvent(acc.processed, tt.eventId)
      THEN [acc EXCEPT !.err = "same_event"]
    ELSE IF ExistingOrderCountForEvent(snap, userId, tt.eventId) > 0
      THEN [acc EXCEPT !.err = "already_has"]
    ELSE IF tt.quota = NULL THEN [acc EXCEPT !.err = "no_quota"]
    ELSE IF SoldOut(tt) THEN [acc EXCEPT !.err = "sold_out"]
    ELSE [acc EXCEPT !.processed = @ \cup {tt.eventId},
                     !.total = @ + tt.price,
                     !.data = Append(@, [ticketTypeId |-> id,
                                         pricePerTicket |-> tt.price]),
                     !.incs = Append(@, id),
                     !.seen = Append(@, tt.sold)]

RECURSIVE CreateLoop(_, _, _, _)
CreateLoop(userId, snap, acc, items) ==
  IF items = <<>> \/ acc.err # "none" THEN acc
  ELSE CreateLoop(userId, snap, CreateItem(userId, snap, acc, Head(items)),
                  Tail(items))

\* status of the failure response, from the message tests in the catch block
CreateErrorStatus(err) ==
  IF err \in {"sold_out", "not_found"} THEN 400 ELSE 500

\* the data of tx.order.create: the total and the lines the loop built
NewOrderFirstLineTotal(userId, acc) ==
  [userId |-> userId, paymentStatus |-> "pending", paymentMethod |-> "null",
   paymentGatewayReference |-> "null", paidAt |-> NULL,
   totalAmount |-> IF acc.data = <<>> THEN 0 ELSE acc.data[1].pricePerTicket,
   orderItems |-> acc.data]

NewOrder(userId, acc) ==
  [userId |-> userId, paymentStatus |-> "pending", paymentMethod |-> "null",
   paymentGatewayReference |-> "null", paidAt |-> NULL,
   totalAmount |-> acc.total, orderItems |-> acc.data]

\* The transaction's first read fixes its snapshot, and no read of the loop
\* is of a row the transaction has written, so what the loop reads and decides
\* is fixed here; acc holds it (processed is not used after the loop).
CreateOrderBegin(r, userId, items) ==
  /\ CanStart(r)
  /\ req' = [req EXCEPT ![r] = [IdleRequest EXCEPT
               !.kind = "createOrder", !.pc = "tx", !.userId = userId,
               !.acc = [CreateLoop(userId, db, CreateAcc0, items)
                          EXCEPT !.processed = {}]]]
  /\ resp' = NoResponse
  /\ UNCHANGED <<db, clock>>

\* the committed state a createOrder that threw nowhere leaves: the
\* increments on the committed rows and the order insert
CreateCommitted(committed, userId, acc) ==
  [committed EXCEPT !.ticketTypes = AddSoldAll(@, acc.incs, 1),
                    !.orders = Append(@, NewOrder(userId, acc))]

\* the increments, the order insert and the commit, or the throw and the
\* rollback
CreateOrderRun(r) ==
  /\ req[r].kind = "createOrder" /\ req[r].pc = "tx"
  /\ LET acc == req[r].acc
         working == [db EXCEPT !.ticketTypes = AddSoldAll(@, acc.incs, 1)]
     IN IF acc.err = "none"
        THEN /\ db' = CreateCommitted(db, req[r].userId, acc)
             /\ resp' = Response("createOrder", TRUE, 201, "created",
                                 Len(db.orders) + 1, Len(acc.incs))
        ELSE /\ db' = Rollback(db, working)
             /\ resp' = Response("createOrder", FALSE, CreateErrorStatus(acc.err),
                                 acc.err, 0, Len(acc.incs))
  /\ req' = [req EXCEPT ![r] = DoneRequest]
  /\ UNCHANGED clock

\* -------------------------------------------------------------- cancelOrder
\* the ownership test of cancelOrder
CancelNotOwnerIgnored(order, userId) == FALSE

CancelNotOwner(order, userId) == order.userId # userId

\* the status test of cancelOrder
CancellableAlways(order) == TRUE

Cancellable(order) == order.paymentStatus = "pending"

\* findUnique and the three checks, inside the transaction; a throw ends the
\* request with the message of the error
CancelOrderRead(r, userId, orderCode) ==
  /\ CanStart(r)
  /\ IF ~OrderFound(db, orderCode)
     THEN /\ resp' = Response("cancelOrder", FALSE, 400, "not_found", 0, 0)
          /\ req' = [req EXCEPT ![r] = DoneRequest]
     ELSE IF CancelNotOwner(db.orders[orderCode], userId)
     THEN /\ resp' = Response("cancelOrder", FALSE, 400, "not_authorized",
                              orderCode, 0)
          /\ req' = [req EXCEPT ![r] = DoneRequest]
     ELSE IF ~Cancellable(db.orders[orderCode])
     THEN /\ resp' = Response("cancelOrder", FALSE, 400, "cannot_be_cancelled",
                              orderCode, 0)
          /\ req' = [req EXCEPT ![r] = DoneRequest]
     ELSE /\ resp' = NoResponse
          /\ req' = [req EXCEPT ![r] = [IdleRequest EXCEPT
                       !.kind = "cancelOrder", !.pc = "tx", !.userId = userId,
                       !.orderId = orderCode]]
  /\ UNCHANGED <<db, clock>>

\* the committed state the writes of cancelOrder leave: the status update
\* and the decrement per item of the order
CancelCommitted(committed, o) ==
  [committed EXCEPT
     !.orders[o].paymentStatus = "canceled",
     !.ticketTypes = AddSoldAll(@, ItemTypeIds(committed.orders[o]), 0 - 1)]

\* the status update, the decrement per item read, and the commit
CancelOrderWrite(r) ==
  /\ req[r].kind = "cancelOrder" /\ req[r].pc = "tx"
  /\ LET o == req[r].orderId IN
     /\ db' = CancelCommitted(db, o)
     /\ resp' = Response("cancelOrder", TRUE, 200, "cancelled", o, 0)
  /\ req' = [req EXCEPT ![r] = DoneRequest]
  /\ UNCHANGED clock

\* --------------------------------------------------- _processSuccessfulOrder
\* the "double-check" of the status inside the transaction
StillPending(order) == order.paymentStatus = "pending"

\* uniqueCode String @unique
UniqueCodeFreeUnchecked(tickets, code) == TRUE

UniqueCodeFree(tickets, code) == \A t \in tickets : t.uniqueCode # code

\* the data of tx.ticket.create: the buyer's userId, and the event and ticket
\* type of the order item
NewTicketOfOtherUser(view, o, i, code) ==
  LET order == view.orders[o]
      item == order.orderItems[i]
  IN [orderId |-> o, line |-> i,
      eventId |-> view.ticketTypes[item.ticketTypeId].eventId,
      ticketTypeId |-> item.ticketTypeId,
      userId |-> CHOOSE u \in Users : u # order.userId,
      uniqueCode |-> code, status |-> "active",
      checkInTime |-> NULL, checkedInByUserId |-> NULL]

NewTicket(view, o, i, code) ==
  LET order == view.orders[o]
      item == order.orderItems[i]
  IN [orderId |-> o, line |-> i,
      eventId |-> view.ticketTypes[item.ticketTypeId].eventId,
      ticketTypeId |-> item.ticketTypeId, userId |-> order.userId,
      uniqueCode |-> code, status |-> "active",
      checkInTime |-> NULL, checkedInByUserId |-> NULL]

\* the loop over order.orderItems from line i on: codes[i] is the code
\* generateTicketCode() returns for line i, qrFailAt the line whose QR file
\* cannot be written (0: none).  Returns the tickets to insert, or the
\* error thrown.
RECURSIVE IssueTickets(_, _, _, _, _, _)
IssueTickets(view, o, i, codes, qrFailAt, acc) ==
  IF acc.err # "none" \/ i > Len(view.orders[o].orderItems) THEN acc
  ELSE IF qrFailAt = i
    THEN [acc EXCEPT !.err = "qr_failed"]
  ELSE IF ~UniqueCodeFree(view.tickets \cup acc.tickets, codes[i])
    THEN [acc EXCEPT !.err = "duplicate_code"]
  ELSE IssueTickets(view, o, i + 1, codes, qrFailAt,
         [acc EXCEPT !.tickets = @ \cup {NewTicket(view, o, i, codes[i])}])

UsedCodes(tickets) == {t.uniqueCode : t \in tickets}

\* Codes are opaque: a generated code is either one already taken or a new
\* one, and the lowest unused code stands for any new one.
CodeChoices(tickets, n) ==
  {codes \in [1..n -> TicketCodes] :
     \A i \in 1..n :
       LET used == UsedCodes(tickets) \cup {codes[j] : j \in 1..(i - 1)}
       IN \/ codes[i] \in used
          \/ /\ codes[i] \notin used
             /\ \A c \in TicketCodes : c < codes[i] => c \in used}

\* the committed state a settlement of order o that throws nowhere leaves:
\* the order paid at time at, a ticket per line with the codes generated, and
\* the purchase_success notification
Settled(committed, o, at, method, reference, codes) ==
  LET paid == [committed EXCEPT
         !.orders[o].paymentStatus = "paid",
         !.orders[o].paidAt = at,
         !.orders[o].paymentMethod = method,
         !.orders[o].paymentGatewayReference = reference]
      issue == IssueTickets(paid, o, 1, codes, 0,
                            [err |-> "none", tickets |-> {}])
  IN [paid EXCEPT
        !.tickets = @ \cup issue.tickets,
        !.notifications =
           Append(@, [userId |-> committed.orders[o].userId, orderId |-> o,
                      eventId |-> NULL, type |-> "purchase_success"])]

\* the reads of the transaction: findUnique with items and user, and the
\* status test; a throw makes the helper return false
ProcessRead(r) ==
  /\ req[r].pc = "pso"
  /\ LET o == req[r].orderId IN
     IF StillPending(db.orders[o])
     THEN /\ req' = [req EXCEPT ![r].pc = "psoTx"]
          /\ resp' = NoResponse
     ELSE /\ req' = [req EXCEPT ![r] = DoneRequest]
          /\ resp' = [(IF req[r].kind = "manualCheckout"
                       THEN Response("manualCheckout", FALSE, 500,
                                     "failed_to_process", o, 0)
                       ELSE GatewayAck(TRUE, "processed", o))
                      EXCEPT !.cause = "not_pending",
                             !.transactionStatus = req[r].transactionStatus]
  /\ UNCHANGED <<db, clock>>

\* the writes of the transaction: status, tickets, notification, commit; a
\* throw rolls all of them back and makes the helper return false
ProcessWrite(r, qrFailAt, notifyFails) ==
  /\ req[r].pc = "psoTx"
  /\ qrFailAt <= Len(db.orders[req[r].orderId].orderItems)
  /\ \E codes \in CodeChoices(db.tickets,
                              Len(db.orders[req[r].orderId].orderItems)) :
     LET o == req[r].orderId
         paid == [db EXCEPT
            !.orders[o].paymentStatus = "paid",
            !.orders[o].paidAt = clock,
            !.orders[o].paymentMethod = req[r].method,
            !.orders[o].paymentGatewayReference = req[r].reference]
         issue == IssueTickets(paid, o, 1, codes, qrFailAt,
                               [err |-> "none", tickets |-> {}])
         working == [paid EXCEPT
            !.tickets = @ \cup issue.tickets,
            !.notifications = IF issue.err = "none" /\ ~notifyFails
               THEN Append(@, [userId |-> db.orders[o].userId, orderId |-> o,
                               eventId |-> NULL, type |-> "purchase_success"])
               ELSE @]
         ok == issue.err = "none" /\ ~notifyFails
     IN /\ db' = IF ok
                 THEN Settled(db, o, clock, req[r].method, req[r].reference,
                              codes)
                 ELSE Rollback(db, working)
        /\ clock' = IF ok THEN clock + 1 ELSE clock
        /\ resp' = [(IF req[r].kind = "manualCheckout"
                     THEN IF ok
                          THEN Response("manualCheckout", TRUE, 200, "paid", o, 0)
                          ELSE Response("manualCheckout", FALSE, 500,
                                        "failed_to_process", o, 0)
                     ELSE GatewayAck(TRUE, "processed", o))
                    EXCEPT !.settled = ok,
                           !.issued = Cardinality(issue.tickets),
                           !.transactionStatus = req[r].transactionStatus,
                           !.cause = IF issue.err # "none" THEN issue.err
                                     ELSE IF notifyFails
                                       THEN "notification_failed"
                                     ELSE "none"]
  /\ req' = [req EXCEPT ![r] = DoneRequest]

\* ----------------------------------------------------------- manualCheckout
IsNaN(amount) == amount = NaN

\* the ownership test of manualCheckout
CheckoutNotOwnerIgnored(order, userId) == FALSE

CheckoutNotOwner(order, userId) == order.userId # userId

\* the comparison of Number(paymentDetails.paymentAmount) with
\* Number(order.totalAmount)
PaymentAlwaysSufficient(paymentAmount, totalAmount) == FALSE

InsufficientPayment(paymentAmount, totalAmount) == paymentAmount < totalAmount

\* Number(order.totalAmount): the total stored with the order, not the
\* prices the ticket types of its lines have in the view
RECURSIVE CurrentPriceTotal(_, _)
CurrentPriceTotal(view, order) ==
  IF order.orderItems = <<>> THEN 0
  ELSE view.ticketTypes[Head(order.orderItems).ticketTypeId].price
       + CurrentPriceTotal(view, [order EXCEPT !.orderItems = Tail(@)])

OrderTotal(view, order) == order.totalAmount

\* the status test of manualCheckout
CheckoutNotPendingIgnored(order) == FALSE

CheckoutNotPending(order) == order.paymentStatus # "pending"

\* findUnique outside any transaction, and the checks in their order
ManualCheckoutRead(r, userId, orderCode, amount, method) ==
  /\ CanStart(r)
  /\ LET fail(st, msg) ==
           /\ resp' = Response("manualCheckout", FALSE, st, msg,
                               IF OrderFound(db, orderCode) THEN orderCode ELSE 0, 0)
           /\ req' = [req EXCEPT ![r] = DoneRequest]
     IN IF ~OrderFound(db, orderCode) THEN fail(404, "not_found")
        ELSE IF CheckoutNotOwner(db.orders[orderCode], userId)
          THEN fail(403, "not_authorized")
        ELSE IF CheckoutNotPending(db.orders[orderCode]) THEN fail(400, "not_pending")
        ELSE IF IsNaN(amount) THEN fail(400, "invalid_amount")
        ELSE IF InsufficientPayment(amount, OrderTotal(db, db.orders[orderCode]))
          THEN fail(400, "insufficient_payment")
        ELSE /\ resp' = NoResponse
             /\ req' = [req EXCEPT ![r] = [IdleRequest EXCEPT
                   !.kind = "manualCheckout", !.pc = "pso", !.userId = userId,
                   !.orderId = orderCode,
                   !.method = IF method = "" THEN "manual" ELSE method,
                   !.reference = ManualReference]]
  /\ UNCHANGED <<db, clock>>

\* ---------------------------------------------------- handlePaymentCallback
\* the switch over transaction_status
MapStatusDefaultExpired(transactionStatus) ==
  CASE transactionStatus \in {"capture", "settlement"} -> "paid"
    [] transactionStatus \in {"deny", "cancel"} -> "failed"
    [] transactionStatus = "pending" -> "pending"
    [] OTHER -> "expired"

MapStatus(transactionStatus) ==
  CASE transactionStatus \in {"capture", "settlement"} -> "paid"
    [] transactionStatus \in {"deny", "cancel"} -> "failed"
    [] transactionStatus = "expire" -> "expired"
    [] transactionStatus = "pending" -> "pending"
    [] OTHER -> "failed"

\* the "already finalized" test of handlePaymentCallback
AlreadyFinalizedIgnored(order) == FALSE

AlreadyFinalized(order) == order.paymentStatus # "pending"

\* orderCode 0 is a payload without order_id.  findUnique with the items,
\* outside any transaction, the checks and the switch.
CallbackRead(r, orderCode, transactionStatus) ==
  /\ CanStart(r)
  /\ LET ack(ok, msg) ==
           /\ resp' = GatewayAck(ok, msg,
                                 IF OrderFound(db, orderCode) THEN orderCode ELSE 0)
           /\ req' = [req EXCEPT ![r] = DoneRequest]
         newStatus == MapStatus(transactionStatus)
     IN IF orderCode = 0 THEN ack(FALSE, "missing_order_identifier")
        ELSE IF ~OrderFound(db, orderCode) THEN ack(FALSE, "order_not_found")
        ELSE IF AlreadyFinalized(db.orders[orderCode])
          THEN ack(TRUE, "already_finalized")
        ELSE IF newStatus = "pending"
          THEN /\ resp' = [GatewayAck(TRUE, "processed", orderCode)
                           EXCEPT !.transactionStatus = transactionStatus]
               /\ req' = [req EXCEPT ![r] = DoneRequest]
        ELSE /\ resp' = NoResponse
             /\ req' = [req EXCEPT ![r] = [IdleRequest EXCEPT
                   !.kind = "handlePaymentCallback",
                   !.pc = IF newStatus = "paid" THEN "pso" ELSE "revert",
                   !.orderId = orderCode, !.newStatus = newStatus,
                   !.transactionStatus = transactionStatus,
                   !.method = "gateway", !.reference = GatewayReference]]
  /\ UNCHANGED <<db, clock>>

\* the transaction of the failed/expired branch: status update, decrement per
\* item of the order read by CallbackRead, commit.  With throws, the store
\* rejects the first decrement (lock wait timeout, lost connection): the
\* transaction rolls back and the catch block answers.
CallbackRevert(r, throws) ==
  /\ req[r].kind = "handlePaymentCallback" /\ req[r].pc = "revert"
  /\ LET o == req[r].orderId
         written == [db EXCEPT
           !.orders[o].paymentStatus = req[r].newStatus,
           !.orders[o].paymentMethod = req[r].method,
           !.orders[o].paymentGatewayReference = req[r].reference]
         working == [written EXCEPT
           !.ticketTypes = AddSoldAll(@, ItemTypeIds(db.orders[o]), 0 - 1)]
     IN
     /\ db' = IF throws THEN Rollback(db, written) ELSE working
     /\ resp' = [(IF throws
                  THEN GatewayAck(FALSE, "internal_server_error", o)
                  ELSE GatewayAck(TRUE, "processed", o))
                 EXCEPT !.transactionStatus = req[r].transactionStatus]
  /\ req' = [req EXCEPT ![r] = DoneRequest]
  /\ UNCHANGED clock

\* -------------------------------------------------------------------- spec
\* The committed state createOrder(userId, items) leaves when it runs alone
\* on an empty store and succeeds
Placed(userId, items) ==
  LET acc == CreateLoop(userId, EmptyDb, CreateAcc0, items)
  IN [EmptyDb EXCEPT !.ticketTypes = AddSoldAll(@, acc.incs, 1),
                     !.orders = Append(@, NewOrder(userId, acc))]

\* The store starts empty, or with one order placed and still pending
InitialDbs == {EmptyDb, Placed(1, <<1>>), Placed(1, <<1, 2>>)}

Init ==
  /\ db \in InitialDbs
  /\ req = [r \in Slots |-> IdleRequest]
  /\ clock = 1
  /\ resp = NoResponse

Next ==
  \/ \E r \in Slots, u \in Users, items \in ItemLists :
       CreateOrderBegin(r, u, items)
  \/ \E r \in Slots : CreateOrderRun(r)
  \/ \E r \in Slots, u \in Users, code \in OrderCodes :
       CancelOrderRead(r, u, code)
  \/ \E r \in Slots : CancelOrderWrite(r)
  \/ \E r \in Slots, u \in Users, code \in OrderCodes,
        amount \in PaymentAmounts, method \in PaymentMethodInputs :
       ManualCheckoutRead(r, u, code, amount, method)
  \/ \E r \in Slots, code \in {0} \cup OrderCodes,
        status \in TransactionStatuses :
       CallbackRead(r, code, status)
  \/ \E r \in Slots : ProcessRead(r)
  \/ \E r \in Slots, qrFailAt \in 0..MaxItems, notifyFails \in BOOLEAN :
       ProcessWrite(r, qrFailAt, notifyFails)
  \/ \E r \in Slots, throws \in BOOLEAN : CallbackRevert(r, throws)

Spec == Init /\ [][Next]_vars

\* ------------------------------------------------------------ checkInTicket
\* the admins who scan tickets at the venue
Admins == {8, 9}

\* event.status values updateEvent is given
EventStatuses == {"draft", "published"}

\* prisma.ticket.findUnique({ where: { uniqueCode, deletedAt: null } })
TicketFound(view, code) == \E t \in view.tickets : t.uniqueCode = code

TicketByCode(view, code) == CHOOSE t \in view.tickets : t.uniqueCode = code

\* the status test on the parent event
EventNotActiveIgnored(event) == FALSE

EventNotActive(event) == event.status # "published"

\* now < checkinStartTime, the start of the event less one hour
NotYetOpenBeforeStart(now, event) == now < event.startTime

NotYetOpen(now, event) == now < event.startTime - LeadWindow

\* the status test on the ticket
AlreadyCheckedInIgnored(ticket) == FALSE

AlreadyCheckedIn(ticket) == ticket.status = "checked_in"

\* the try/catch around prisma.notification.create: the error is logged and
\* goes no further
CheckInSucceedsIfNotified(notifyFails) == ~notifyFails

CheckInSucceeds(notifyFails) == TRUE

\* findUnique with the event, outside any transaction, and the checks in
\* their order; now is new Date() of the time check
CheckInRead(r, uniqueCode, adminUserId) ==
  /\ CanStart(r)
  /\ LET fail(st, msg) ==
           /\ resp' = [Response("checkInTicket", FALSE, st, msg, 0, 0)
                       EXCEPT !.uniqueCode = uniqueCode]
           /\ req' = [req EXCEPT ![r] = DoneRequest]
     IN IF ~TicketFound(db, uniqueCode) THEN fail(404, "not_found")
        ELSE LET ticket == TicketByCode(db, uniqueCode)
                 event == db.events[ticket.eventId]
             IN IF EventNotActive(event) THEN fail(400, "event_not_active")
                ELSE IF NotYetOpen(clock, event) THEN fail(400, "not_open")
                ELSE IF AlreadyCheckedIn(ticket)
                  THEN fail(400, "already_checked_in")
                ELSE /\ resp' = NoResponse
                     /\ req' = [req EXCEPT ![r] = [IdleRequest EXCEPT
                           !.kind = "checkInTicket", !.pc = "update",
                           !.userId = adminUserId, !.uniqueCode = uniqueCode,
                           !.now = clock]]
  /\ UNCHANGED <<db, clock>>

\* the data of prisma.ticket.update: status, time and admin in one update
CheckedInStatusOnly(ticket, now, adminUserId) ==
  [ticket EXCEPT !.status = "checked_in"]

CheckedIn(ticket, now, adminUserId) ==
  [ticket EXCEPT !.status = "checked_in",
                 !.checkInTime = now,
                 !.checkedInByUserId = adminUserId]

\* prisma.ticket.update by id, whatever the row holds by now, then the
\* checkin_success notification in its own try/catch, and the result
CheckInWrite(r, notifyFails) ==
  /\ req[r].kind = "checkInTicket" /\ req[r].pc = "update"
  /\ LET code == req[r].uniqueCode
         ticket == TicketByCode(db, code)
     IN /\ db' = [db EXCEPT
             !.tickets = {IF t.uniqueCode = code
                          THEN CheckedIn(t, req[r].now, req[r].userId)
                          ELSE t : t \in db.tickets},
             !.notifications = IF notifyFails THEN @
                ELSE Append(@, [userId |-> ticket.userId, orderId |-> NULL,
                                eventId |-> ticket.eventId,
                                type |-> "checkin_success"])]
        /\ resp' = [(IF CheckInSucceeds(notifyFails)
                     THEN Response("checkInTicket", TRUE, 200, "checked_in",
                                   0, 0)
                     ELSE Response("checkInTicket", FALSE, 500,
                                   "failed_to_check_in", 0, 0))
                    EXCEPT !.uniqueCode = code,
                           !.cause = IF notifyFails THEN "notification_failed"
                                     ELSE "none"]
  /\ req' = [req EXCEPT ![r] = DoneRequest]
  /\ UNCHANGED clock

\* EventService.updateEvent with a status
UpdateEventStatus(e, status) ==
  /\ ~db.events[e].deleted
  /\ db.events[e].status # status
  /\ db' = [db EXCEPT !.events[e].status = status]
  /\ resp' = NoResponse
  /\ UNCHANGED <<req, clock>>

\* half an hour passes
Tick ==
  /\ clock < MaxClock
  /\ clock' = clock + 1
  /\ resp' = NoResponse
  /\ UNCHANGED <<db, req>>

\* The venue: the order of user 1 for events 1 and 2 has been paid at time 1
\* and its two tickets issued
CheckInDbs ==
  {Settled(Placed(1, <<1, 2>>), 1, 1, "cash", ManualReference, <<1, 2>>)}

\* ticket codes a scan can carry: those issued, and one of no ticket
ScanCodes == 1..(Cardinality(db.tickets) + 1)

CheckInInit ==
  /\ db \in CheckInDbs
  /\ req = [r \in Slots |-> IdleRequest]
  /\ clock = 1
  /\ resp = NoResponse

CheckInNext ==
  \/ \E r \in Slots, code \in ScanCodes, admin \in Admins :
       CheckInRead(r, code, admin)
  \/ \E r \in Slots, notifyFails \in BOOLEAN : CheckInWrite(r, notifyFails)
  \/ \E e \in DOMAIN db.events, status \in EventStatuses :
       UpdateEventStatus(e, status)
  \/ Tick

CheckInSpec == CheckInInit /\ [][CheckInNext]_vars

\* --------------------------------------------------------- updateTicketType
\* price and quantity of the body of an update; NULL is a field not sent
UpdatePrices == {NULL, 15}

UpdateQuantities == {NULL, 1, 4}

\* event.ticketTypes.reduce((total, { quantity }) => total + quantity, 0)
\* over the ticket types of the event that are not deleted
RECURSIVE QuantitySum(_, _, _)
QuantitySum(view, eventId, ids) ==
  IF ids = {} THEN 0
  ELSE LET id == CHOOSE x \in ids : TRUE
           tt == view.ticketTypes[id]
       IN (IF tt.eventId = eventId /\ ~tt.deleted THEN tt.quantity ELSE 0)
          + QuantitySum(view, eventId, ids \ {id})

\* dataToUpdate.quota: parseInt(quantity, 10) - ticketType.sold when a
\* quantity is sent, whether or not orders reference the ticket type
UpdatedQuota(tt, quantity) == quantity - tt.sold

\* the two reads, outside any transaction, and the checks in their order;
\* the request keeps dataToUpdate
UpdateTicketTypeRead(r, eventId, id, price, quantity) ==
  /\ CanStart(r)
  /\ LET fail(st, msg) ==
           /\ resp' = Response("updateTicketType", FALSE, st, msg, 0, 0)
           /\ req' = [req EXCEPT ![r] = DoneRequest]
         tt == db.ticketTypes[id]
     IN IF ~TicketTypeFound(db, id) \/ tt.eventId # eventId
          THEN fail(404, "not_found")
        ELSE IF db.events[eventId].deleted THEN fail(404, "event_not_found")
        ELSE IF /\ quantity # NULL
                /\ db.events[eventId].capacity <
                     QuantitySum(db, eventId, TicketTypeIds) - tt.quantity
                       + quantity
          THEN fail(400, "over_capacity")
        ELSE IF quantity # NULL /\ UpdatedQuota(tt, quantity) < 0
          THEN fail(400, "over_capacity")
        ELSE IF price = NULL /\ quantity = NULL THEN fail(400, "no_fields")
        ELSE /\ resp' = NoResponse
             /\ req' = [req EXCEPT ![r] = [IdleRequest EXCEPT
                   !.kind = "updateTicketType", !.pc = "update",
                   !.update = [id |-> id, price |-> price,
                               quantity |-> quantity,
                               quota |-> IF quantity = NULL THEN NULL
                                         ELSE UpdatedQuota(tt, quantity)]]]
  /\ UNCHANGED <<db, clock>>

\* prisma.ticketType.update with dataToUpdate: the fields sent, and quota
\* when a quantity was sent
UpdateTicketTypeWrite(r) ==
  /\ req[r].kind = "updateTicketType" /\ req[r].pc = "update"
  /\ LET u == req[r].update IN
     db' = [db EXCEPT
        !.ticketTypes[u.id].price = IF u.price = NULL THEN @ ELSE u.price,
        !.ticketTypes[u.id].quantity =
           IF u.quantity = NULL THEN @ ELSE u.quantity,
        !.ticketTypes[u.id].quota = IF u.quantity = NULL THEN @ ELSE u.quota]
  /\ resp' = Response("updateTicketType", TRUE, 200, "updated", 0, 0)
  /\ req' = [req EXCEPT ![r] = DoneRequest]
  /\ UNCHANGED clock

\* The order pipeline with the admin's updates of the catalogue
CatalogueNext ==
  \/ Next
  \/ \E r \in Slots, e \in DOMAIN db.events, id \in TicketTypeIds,
        price \in UpdatePrices, quantity \in UpdateQuantities :
       UpdateTicketTypeRead(r, e, id, price, quantity)
  \/ \E r \in Slots : UpdateTicketTypeWrite(r)

CatalogueSpec == Init /\ [][CatalogueNext]_vars

\* ------------------------------------------------------------------ claims
Quota(id) == db.ticketTypes[id].quota

Sold(id) == db.ticketTypes[id].sold

TicketsOf(o, i) == {t \in db.tickets : t.orderId = o /\ t.line = i}

\* C1: every ticket type with a defined quota has sold <= quota, in every
\* committed state, whatever the interleaving of the requests.
C1_SoldWithinQuota ==
  \A id \in TicketTypeIds : Quota(id) # NULL => Sold(id) <= Quota(id)

\* C2: a createOrder for a single ticket type that read one unit left, and
\* returns after a concurrent createOrder of another user has taken that unit,
\* fails as sold out and leaves sold equal to quota: of the two, one wins.
C2_LastUnitOneWinner ==
  [][\A r \in Slots, id \in TicketTypeIds :
       ( /\ req[r].kind = "createOrder" /\ req[r].pc = "tx"
         /\ req'[r].pc = "done"
         /\ req[r].acc.err = "none"
         /\ req[r].acc.incs = <<id>>
         /\ req[r].acc.seen = <<Quota(id) - 1>>
         /\ Sold(id) = Quota(id)
         /\ \E o \in DOMAIN db.orders :
              /\ db.orders[o].userId # req[r].userId
              /\ db.orders[o].paymentStatus = "pending"
              /\ ItemTypeIds(db.orders[o]) = <<id>> )
       => ( /\ ~resp'.success
            /\ resp'.message = "sold_out"
            /\ db'.ticketTypes[id].sold = db'.ticketTypes[id].quota )]_vars

\* C3: no release of inventory, by cancelOrder or by the failed/expired
\* branch of handlePaymentCallback, drives sold below zero.
C3_SoldNeverNegative == \A id \in TicketTypeIds : Sold(id) >= 0

\* C4: a createOrder that fails on any item changes nothing: neither its
\* first step nor the step in which it throws alters the committed rows, so no
\* order, no order line and no increment of the request remains, whatever the
\* number of items processed before the failing one.
C4_CreateOrderAtomic ==
  [][( \/ \E r \in Slots : req[r].pc = "idle" /\ req'[r].kind = "createOrder"
       \/ resp'.op = "createOrder" /\ ~resp'.success )
     => db' = db]_vars

\* a createOrder has failed on its second item, after the increment for its
\* first item had been issued
C4_Witness ==
  /\ resp.op = "createOrder" /\ ~resp.success
  /\ resp.incs >= 1
  /\ resp.message \in {"not_found", "same_event", "no_quota", "sold_out"}

\* C5: every order line has at most one ticket, whatever the interleaving of
\* the settlement requests on its order.
C5_OneTicketPerLine ==
  \A o \in DOMAIN db.orders : \A i \in DOMAIN db.orders[o].orderItems :
    Cardinality(TicketsOf(o, i)) <= 1

\* C6: once an order's paymentStatus is paid, failed, expired or canceled it
\* never changes again.
C6_TerminalIsFinal ==
  [][\A o \in DOMAIN db.orders :
       db.orders[o].paymentStatus \in TerminalStatuses
       => db'.orders[o].paymentStatus = db.orders[o].paymentStatus]_vars

\* the step returns the result of a settlement as paid of order o that
\* succeeded
SettledPaid(o) ==
  /\ resp'.op \in {"manualCheckout", "handlePaymentCallback"}
  /\ resp'.settled
  /\ resp'.orderId = o

\* C7: when a settlement as paid succeeds on an order that is pending, the
\* order is paid and has exactly one ticket per line and no other, all active,
\* and the codes of all tickets of the system are pairwise distinct.
C7_SettlementIssuesTickets ==
  [][\A o \in DOMAIN db.orders :
       (db.orders[o].paymentStatus = "pending" /\ SettledPaid(o))
       => LET n == Len(db'.orders[o].orderItems)
              mine == {t \in db'.tickets : t.orderId = o}
          IN /\ db'.orders[o].paymentStatus = "paid"
             /\ Cardinality(mine) = n
             /\ \A i \in 1..n : \E t \in mine : t.line = i
             /\ \A t \in mine : t.status = "active"
             /\ \A t, u \in db'.tickets :
                  t # u => t.uniqueCode # u.uniqueCode]_vars

\* a settlement has succeeded on an order of two lines, which has its two
\* tickets
C7_Witness ==
  /\ resp.op \in {"manualCheckout", "handlePaymentCallback"}
  /\ resp.settled
  /\ Len(db.orders[resp.orderId].orderItems) = 2
  /\ Cardinality(db.tickets) >= 2

\* C8: every ticket belongs to a line of a paid order, and every paid order
\* has a ticket for each of its lines.
C8_TicketsIffPaid ==
  /\ \A t \in db.tickets : db.orders[t.orderId].paymentStatus = "paid"
  /\ \A o \in DOMAIN db.orders :
       db.orders[o].paymentStatus = "paid"
       => \A i \in DOMAIN db.orders[o].orderItems : TicketsOf(o, i) # {}

\* request r starts in this step, as a manualCheckout or a callback that
\* names order o
StartsSettlement(r, o) ==
  /\ req[r].pc = "idle"
  /\ \/ /\ req'[r].pc = "done"
        /\ resp'.op \in {"manualCheckout", "handlePaymentCallback"}
        /\ resp'.orderId = o
     \/ /\ req'[r].pc \notin {"idle", "done"}
        /\ req'[r].kind \in {"manualCheckout", "handlePaymentCallback"}
        /\ req'[r].orderId = o

\* C9: a manualCheckout or a callback invoked on an order that has left
\* pending returns in its first step and leaves orders (status, paidAt, method,
\* reference), tickets, notifications and sold counters as they were.
C9_RepeatedSettlementChangesNothing ==
  [][\A r \in Slots : \A o \in DOMAIN db.orders :
       (StartsSettlement(r, o) /\ db.orders[o].paymentStatus # "pending")
       => (req'[r].pc = "done" /\ db' = db /\ clock' = clock)]_vars

\* a callback or a checkout has returned on an order that an earlier
\* settlement had paid
C9_Witness ==
  /\ resp.message \in {"already_finalized", "not_pending"}
  /\ db.orders[resp.orderId].paymentStatus = "paid"
  /\ \E t \in db.tickets : t.orderId = resp.orderId

\* C10, as claimed: a manualCheckout by the owner or a callback on an order in
\* a terminal state changes nothing and reports success.
C10_RepeatReportsSuccess ==
  [][\A r \in Slots : \A o \in DOMAIN db.orders :
       ( /\ StartsSettlement(r, o)
         /\ db.orders[o].paymentStatus \in TerminalStatuses
         /\ resp'.message # "not_authorized" )
       => (req'[r].pc = "done" /\ db' = db /\ resp'.success)]_vars

\* C10, amended: on an order in a terminal state both are no-ops; the
\* callback acknowledges with success, the owner's manualCheckout is rejected
\* with status 400 as not pending.
C10_RepeatIsNoOp ==
  [][\A r \in Slots : \A o \in DOMAIN db.orders :
       ( /\ StartsSettlement(r, o)
         /\ db.orders[o].paymentStatus \in TerminalStatuses
         /\ resp'.message # "not_authorized" )
       => /\ req'[r].pc = "done" /\ db' = db
          /\ resp'.op = "handlePaymentCallback"
             => (resp'.success /\ resp'.message = "already_finalized")
          /\ resp'.op = "manualCheckout"
             => (~resp'.success /\ resp'.status = 400
                 /\ resp'.message = "not_pending")]_vars

\* the owner's manualCheckout has been rejected on an order in a terminal
\* state
C10_Witness ==
  /\ resp.op = "manualCheckout" /\ resp.message = "not_pending"
  /\ db.orders[resp.orderId].paymentStatus \in TerminalStatuses

\* the step is the end of a settlement as paid of order o whose transaction
\* threw the error named cause
SettlementThrew(o, cause) ==
  /\ resp'.op \in {"manualCheckout", "handlePaymentCallback"}
  /\ resp'.orderId = o
  /\ ~resp'.settled
  /\ resp'.cause = cause

\* C11: when QR generation fails for a line of an order being settled as
\* paid, the settlement rolls back: the order is still pending with the
\* payment fields it had, no ticket and no notification of the order has been
\* added (whatever the number of lines processed before the failing one),
\* and every sold counter is unchanged.
C11_QrFailureRollsBack ==
  [][\A o \in DOMAIN db.orders :
       (db.orders[o].paymentStatus = "pending" /\ SettlementThrew(o, "qr_failed"))
       => /\ db'.orders[o] = db.orders[o]
          /\ db'.orders[o].paymentStatus = "pending"
          /\ {t \in db'.tickets : t.orderId = o} = {}
          /\ db'.tickets = db.tickets
          /\ db'.notifications = db.notifications
          /\ \A id \in TicketTypeIds :
               db'.ticketTypes[id].sold = db.ticketTypes[id].sold]_vars

\* QR generation has failed for the second line of a pending order, after
\* the ticket of its first line had been inserted; the order is pending and
\* has no ticket
C11_Witness ==
  /\ resp.cause = "qr_failed"
  /\ resp.issued = 1
  /\ db.orders[resp.orderId].paymentStatus = "pending"
  /\ Len(db.orders[resp.orderId].orderItems) = 2
  /\ \A t \in db.tickets : t.orderId # resp.orderId

\* the step ends a settlement as paid of order o in which creating the
\* purchase-success notification failed, after the status write and the
\* ticket inserts had gone through
NotificationFailed(o) ==
  /\ resp'.op \in {"manualCheckout", "handlePaymentCallback"}
  /\ resp'.orderId = o
  /\ resp'.cause = "notification_failed"

\* C12: a failure to create the purchase-success notification neither rolls
\* back nor fails the settlement: the order is paid, has a ticket for each of
\* its lines, and the settlement reports success.
C12_NotificationFailureKeepsSettlement ==
  [][\A o \in DOMAIN db.orders :
       (db.orders[o].paymentStatus = "pending" /\ NotificationFailed(o))
       => /\ db'.orders[o].paymentStatus = "paid"
          /\ \A i \in DOMAIN db'.orders[o].orderItems :
               \E t \in db'.tickets : t.orderId = o /\ t.line = i
          /\ resp'.settled
          /\ resp'.success]_vars

\* the step ends a callback that found order o pending and carried
\* transaction status ts
CallbackEnds(o, ts) ==
  /\ resp'.op = "handlePaymentCallback"
  /\ resp'.orderId = o
  /\ resp'.transactionStatus = ts

\* the order status a callback leaves on order o, pending until then, when
\* its switch chose status: the order has it, unless the transaction that
\* writes it threw, and then the order is as it was
MappedTo(o, status) ==
  IF status = "paid"
  THEN IF resp'.settled THEN db'.orders[o].paymentStatus = "paid"
       ELSE db'.orders[o] = db.orders[o]
  ELSE IF resp'.success THEN db'.orders[o].paymentStatus = status
       ELSE db'.orders[o] = db.orders[o]

\* C13, as claimed: on a pending order the callback maps capture and
\* settlement to paid, deny and cancel to failed, expire to expired, and
\* every other transaction status to failed.
C13_StatusMapping ==
  [][\A o \in DOMAIN db.orders : \A ts \in TransactionStatuses :
       (db.orders[o].paymentStatus = "pending" /\ CallbackEnds(o, ts))
       => MappedTo(o, CASE ts \in {"capture", "settlement"} -> "paid"
                        [] ts \in {"deny", "cancel"} -> "failed"
                        [] ts = "expire" -> "expired"
                        [] OTHER -> "failed")]_vars

\* C13, amended: as above, except that transaction status pending leaves the
\* order pending, with no write at all.
C13_StatusMappingPendingKept ==
  [][\A o \in DOMAIN db.orders : \A ts \in TransactionStatuses :
       (db.orders[o].paymentStatus = "pending" /\ CallbackEnds(o, ts))
       => IF ts = "pending" THEN db' = db
          ELSE MappedTo(o, CASE ts \in {"capture", "settlement"} -> "paid"
                             [] ts \in {"deny", "cancel"} -> "failed"
                             [] ts = "expire" -> "expired"
                             [] OTHER -> "failed")]_vars

\* a callback with a transaction status the switch does not list has ended
\* on an order that is now failed
C13_Witness ==
  /\ resp.op = "handlePaymentCallback"
  /\ resp.transactionStatus = "refund"
  /\ db.orders[resp.orderId].paymentStatus = "failed"

\* the number of lines of an order on ticket type id
LineCount(order, id) ==
  Cardinality({i \in DOMAIN order.orderItems :
                 order.orderItems[i].ticketTypeId = id})

\* the step releases the inventory of every line of order o, and no other
ReleasesLines(o) ==
  \A id \in TicketTypeIds :
    db'.ticketTypes[id].sold =
      db.ticketTypes[id].sold - LineCount(db.orders[o], id)

\* C14: the failed/expired branch of the callback writes the status and
\* releases the inventory in one commit: a step that takes a pending order to
\* failed or expired decrements sold by one for each of its lines, and a
\* callback that ends leaving the order pending leaves every sold counter as
\* it was.
C14_RevertAtomic ==
  [][\A o \in DOMAIN db.orders :
       db.orders[o].paymentStatus = "pending"
       => /\ db'.orders[o].paymentStatus \in {"failed", "expired"}
             => ReleasesLines(o)
          /\ ( /\ resp'.op = "handlePaymentCallback"
               /\ resp'.orderId = o
               /\ db'.orders[o].paymentStatus = "pending" )
             => \A id \in TicketTypeIds :
                  db'.ticketTypes[id].sold = db.ticketTypes[id].sold]_vars

\* a callback has taken an order of two lines to failed or expired, and the
\* unit of each line is back
C14_Witness ==
  /\ resp.op = "handlePaymentCallback"
  /\ resp.message = "processed"
  /\ resp.transactionStatus \in {"deny", "cancel", "expire", "refund"}
  /\ db.orders[resp.orderId].paymentStatus \in {"failed", "expired"}
  /\ Len(db.orders[resp.orderId].orderItems) = 2
  /\ \A i \in 1..2 :
       db.ticketTypes[db.orders[resp.orderId].orderItems[i].ticketTypeId].sold = 0

C16_InsufficientPaymentRejected ==
  [][\A r \in Slots : \A o \in DOMAIN db.orders :
     \A amount \in PaymentAmounts \ {NaN} : \A method \in PaymentMethodInputs :
       ( /\ db.orders[o].paymentStatus = "pending"
         /\ ManualCheckoutRead(r, db.orders[o].userId, o, amount, method) )
       => IF amount < db.orders[o].totalAmount
          THEN /\ resp'.op = "manualCheckout" /\ ~resp'.success
               /\ resp'.status = 400
               /\ resp'.message = "insufficient_payment"
               /\ req'[r].pc = "done"
               /\ db' = db
          ELSE /\ resp' = NoResponse
               /\ req'[r].kind = "manualCheckout" /\ req'[r].pc = "pso"]_vars

\* a manualCheckout has been rejected as insufficient payment on an order of
\* two lines, which is pending and has no ticket
C16_Witness ==
  /\ resp.op = "manualCheckout"
  /\ resp.message = "insufficient_payment"
  /\ db.orders[resp.orderId].paymentStatus = "pending"
  /\ db.orders[resp.orderId].totalAmount = 30
  /\ \A t \in db.tickets : t.orderId # resp.orderId

\* C17: a manualCheckout called by a user who is not the order's owner, or
\* on an order that is not pending, fails in its first step and leaves orders,
\* tickets and sold counters as they were; and a manualCheckout that settles
\* an order is its owner's.
C17_CheckoutOwnerAndPendingOnly ==
  [][/\ \A r \in Slots : \A o \in DOMAIN db.orders : \A u \in Users :
        \A amount \in PaymentAmounts : \A method \in PaymentMethodInputs :
          ( /\ ManualCheckoutRead(r, u, o, amount, method)
            /\ \/ u # db.orders[o].userId
               \/ db.orders[o].paymentStatus # "pending" )
          => /\ resp'.op = "manualCheckout" /\ ~resp'.success
             /\ resp'.status \in {400, 403}
             /\ req'[r].pc = "done"
             /\ db' = db
     /\ \A r \in Slots :
          ( /\ req[r].kind = "manualCheckout" /\ req'[r].pc = "done"
            /\ resp'.settled )
          => req[r].userId = db.orders[req[r].orderId].userId]_vars

\* a manualCheckout by a user who does not own the order has been refused;
\* the order is pending and has no ticket
C17_Witness ==
  /\ resp.op = "manualCheckout"
  /\ resp.status = 403
  /\ resp.message = "not_authorized"
  /\ db.orders[resp.orderId].paymentStatus = "pending"
  /\ \A t \in db.tickets : t.orderId # resp.orderId

\* C18: a cancelOrder by the owner of an order that is paid, failed, expired
\* or canceled fails with status 400 as not cancellable, and leaves the order
\* and every sold counter as they were.
C18_CancelOnlyFromPending ==
  [][\A r \in Slots : \A o \in DOMAIN db.orders :
       ( /\ CancelOrderRead(r, db.orders[o].userId, o)
         /\ db.orders[o].paymentStatus \in TerminalStatuses )
       => /\ resp'.op = "cancelOrder" /\ ~resp'.success
          /\ resp'.status = 400
          /\ resp'.message = "cannot_be_cancelled"
          /\ req'[r].pc = "done"
          /\ db' = db]_vars

\* the owner's cancelOrder has been refused on an order that is paid and has
\* its ticket
C18_Witness ==
  /\ resp.op = "cancelOrder"
  /\ resp.message = "cannot_be_cancelled"
  /\ db.orders[resp.orderId].paymentStatus = "paid"
  /\ \E t \in db.tickets : t.orderId = resp.orderId

\* C19: a cancelOrder by a user who is not the order's owner fails and
\* changes neither the order nor any sold counter, whatever the order's
\* status.
C19_CancelByNonOwnerRefused ==
  [][\A r \in Slots : \A o \in DOMAIN db.orders : \A u \in Users :
       (CancelOrderRead(r, u, o) /\ u # db.orders[o].userId)
       => /\ resp'.op = "cancelOrder" /\ ~resp'.success
          /\ resp'.message = "not_authorized"
          /\ req'[r].pc = "done"
          /\ db' = db]_vars

\* a cancelOrder by a user who does not own the order has been refused; the
\* order is pending and its unit is still reserved
C19_Witness ==
  /\ resp.op = "cancelOrder"
  /\ resp.message = "not_authorized"
  /\ db.orders[resp.orderId].paymentStatus = "pending"
  /\ \A i \in DOMAIN db.orders[resp.orderId].orderItems :
       db.ticketTypes[db.orders[resp.orderId].orderItems[i].ticketTypeId].sold >= 1

\* C20: from any committed state, a createOrder that succeeds followed at
\* once by the owner's cancelOrder of the new order passes the checks of
\* cancelOrder, leaves the order canceled and, for every ticket type, sold at
\* the value it had before the order was created.
C20_CreateCancelRoundTrip ==
  \A u \in Users : \A items \in ItemLists :
    LET acc == CreateLoop(u, db, CreateAcc0, items)
        created == CreateCommitted(db, u, acc)
        o == Len(created.orders)
        cancelled == CancelCommitted(created, o)
    IN acc.err = "none"
       => /\ OrderFound(created, o)
          /\ ~CancelNotOwner(created.orders[o], u)
          /\ Cancellable(created.orders[o])
          /\ cancelled.orders[o].paymentStatus = "canceled"
          /\ Len(created.orders[o].orderItems) = Len(items)
          /\ \A i \in DOMAIN items :
               /\ created.ticketTypes[items[i]].sold
                    = db.ticketTypes[items[i]].sold + 1
               /\ cancelled.ticketTypes[items[i]].sold
                    = db.ticketTypes[items[i]].sold
          /\ \A id \in TicketTypeIds :
               cancelled.ticketTypes[id].sold = db.ticketTypes[id].sold

\* an order of two lines has been created and then cancelled by the two
\* requests of the run; it is canceled and the unit of each line is back
C20_Witness ==
  /\ \A r \in Slots : req[r].pc = "done"
  /\ resp.op = "cancelOrder" /\ resp.success
  /\ Len(db.orders) = 1
  /\ db.orders[1].paymentStatus = "canceled"
  /\ Len(db.orders[1].orderItems) = 2
  /\ \A id \in TicketTypeIds : db.ticketTypes[id].sold = 0

\* the orders of user u, pending or paid, with a line for event e
OpenOrdersFor(u, e) ==
  {o \in DOMAIN db.orders :
     /\ db.orders[o].userId = u
     /\ db.orders[o].paymentStatus \in {"pending", "paid"}
     /\ e \in LineEvents(db, db.orders[o])}

EventIds == {InitTicketTypes[id].eventId : id \in TicketTypeIds}

\* C21: for every user and every event, at most one order of the user that
\* is pending or paid has a line for the event, whatever the interleaving of
\* the user's createOrder requests.
C21_OneOpenOrderPerUserEvent ==
  \A u \in Users : \A e \in EventIds : Cardinality(OpenOrdersFor(u, e)) <= 1

\* the lines of every order are of pairwise distinct events
LinesOfDistinctEvents ==
  \A o \in DOMAIN db.orders : \A i, j \in DOMAIN db.orders[o].orderItems :
    i # j => db.ticketTypes[db.orders[o].orderItems[i].ticketTypeId].eventId
             # db.ticketTypes[db.orders[o].orderItems[j].ticketTypeId].eventId

\* a createOrder whose items include two existing ticket types of one event
\* has its loop end with an error, and returns a failure: a loop that ends
\* with no error is of a request without two such items
TwoLinesOfOneEventRejected ==
  /\ \A r \in Slots :
       ( /\ req[r].pc = "idle" /\ req'[r].kind = "createOrder"
         /\ req'[r].acc.err = "none" )
       => \A items \in ItemLists :
            CreateOrderBegin(r, req'[r].userId, items)
            => ~\E i, j \in DOMAIN items :
                  /\ i # j
                  /\ \A k \in DOMAIN items : TicketTypeFound(db, items[k])
                  /\ db.ticketTypes[items[i]].eventId
                       = db.ticketTypes[items[j]].eventId
  /\ \A r \in Slots :
       ( /\ req[r].kind = "createOrder" /\ req[r].pc = "tx"
         /\ req[r].acc.err # "none" /\ req'[r].pc = "done" )
       => (~resp'.success /\ db' = db)

\* C22: a createOrder with two items of ticket types of the same event is
\* rejected, and in every state, before and after every step, the lines of
\* any order are of pairwise distinct events.
C22_DistinctEventsPerOrder ==
  [][/\ LinesOfDistinctEvents
     /\ LinesOfDistinctEvents'
     /\ TwoLinesOfOneEventRejected]_vars

\* a createOrder has been rejected for a second item of the event of its
\* first
C22_Witness ==
  /\ resp.op = "createOrder" /\ ~resp.success
  /\ resp.message = "same_event"
  /\ resp.incs = 1

\* the rejection checkInTicket owes a scan of code at this time: that of the
\* first precondition that fails, "none" when all hold
FirstRejection(code) ==
  IF \A t \in db.tickets : t.uniqueCode # code THEN "not_found"
  ELSE LET t == CHOOSE t \in db.tickets : t.uniqueCode = code IN
    IF db.events[t.eventId].status # "published" THEN "event_not_active"
    ELSE IF clock < db.events[t.eventId].startTime - 2 THEN "not_open"
    ELSE IF t.status = "checked_in" THEN "already_checked_in"
    ELSE "none"

\* C23: checkInTicket tests, in this order, that the ticket exists, that
\* its event is published, that the time is at or after the opening instant
\* and that the ticket is not checked in yet; it returns the rejection of the
\* first test that fails, each its own, and then changes no row; when all
\* hold it goes on to the update.
C23_CheckInPreconditionsInOrder ==
  [][\A r \in Slots : \A code \in ScanCodes : \A admin \in Admins :
       CheckInRead(r, code, admin)
       => IF FirstRejection(code) = "none"
          THEN resp' = NoResponse /\ req'[r].pc = "update"
          ELSE /\ resp'.op = "checkInTicket" /\ ~resp'.success
               /\ resp'.message = FirstRejection(code)
               /\ resp'.status = (IF FirstRejection(code) = "not_found"
                                  THEN 404 ELSE 400)
               /\ req'[r].pc = "done"
               /\ db' = db]_vars

\* a scan of a ticket that is checked in, for an event no longer published,
\* has been rejected for the event, and the ticket is as it was
C23_Witness ==
  /\ resp.op = "checkInTicket"
  /\ resp.message = "event_not_active"
  /\ \E t \in db.tickets :
       /\ t.uniqueCode = resp.uniqueCode
       /\ t.status = "checked_in"
       /\ t.checkInTime # NULL

\* a ticket that is checked in stays so
CheckedInStays ==
  \A t \in db.tickets : t.status = "checked_in"
    => \E u \in db'.tickets :
         u.uniqueCode = t.uniqueCode /\ u.status = "checked_in"

\* C24, as claimed: a ticket that is checked in never returns to active, and
\* every checkInTicket called on it returns the already-checked-in rejection
\* and changes no row.
C24_FurtherCheckInAlreadyCheckedIn ==
  [][/\ CheckedInStays
     /\ \A r \in Slots : \A admin \in Admins : \A t \in db.tickets :
          (t.status = "checked_in" /\ CheckInRead(r, t.uniqueCode, admin))
          => /\ ~resp'.success
             /\ resp'.message = "already_checked_in"
             /\ req'[r].pc = "done"
             /\ db' = db]_vars

\* C24, amended: a ticket that is checked in never returns to active, and
\* every checkInTicket called on it is rejected and changes no row; the
\* rejection is already-checked-in when the event is published and its
\* window open, and that of the event or of the window otherwise.
C24_FurtherCheckInRejected ==
  [][/\ CheckedInStays
     /\ \A r \in Slots : \A admin \in Admins : \A t \in db.tickets :
          (t.status = "checked_in" /\ CheckInRead(r, t.uniqueCode, admin))
          => /\ ~resp'.success
             /\ resp'.message \in {"event_not_active", "not_open",
                                   "already_checked_in"}
             /\ ( /\ db.events[t.eventId].status = "published"
                  /\ clock >= db.events[t.eventId].startTime - 2 )
                => resp'.message = "already_checked_in"
             /\ req'[r].pc = "done"
             /\ db' = db]_vars

\* a second scan of a ticket has been rejected as already checked in; the
\* ticket has the time and the admin of the first
C24_Witness ==
  /\ resp.op = "checkInTicket"
  /\ resp.message = "already_checked_in"
  /\ \E t \in db.tickets :
       /\ t.uniqueCode = resp.uniqueCode
       /\ t.status = "checked_in"
       /\ t.checkInTime < clock

\* C25: of the checkInTicket requests on one ticket at most one reports
\* success, and the time and the admin the first success recorded are never
\* written again: a check-in succeeds only on a ticket that is active, and
\* the row of a ticket that is checked in does not change.
C25_OneCheckInWins ==
  [][/\ \A t \in db.tickets : t.status = "checked_in" => t \in db'.tickets
     /\ (resp'.op = "checkInTicket" /\ resp'.success)
        => \E t \in db.tickets :
             t.uniqueCode = resp'.uniqueCode /\ t.status = "active"]_vars

\* C26: for a ticket that exists and whose event is published, the scan is
\* rejected as not open exactly when the time is earlier than the start of
\* the event less one hour (two half hours): two hours before the start it is
\* rejected, half an hour before the start the scan of an active ticket
\* passes, and the update that follows reports success.
C26_CheckInOpensOneHourBefore ==
  [][/\ \A r \in Slots : \A admin \in Admins : \A t \in db.tickets :
          ( /\ CheckInRead(r, t.uniqueCode, admin)
            /\ db.events[t.eventId].status = "published" )
          => LET start == db.events[t.eventId].startTime IN
             /\ (resp'.message = "not_open") <=> (clock < start - 2)
             /\ clock = start - 4 => resp'.message = "not_open"
             /\ (clock = start - 1 /\ t.status = "active")
                => (req'[r].kind = "checkInTicket" /\ req'[r].pc = "update"
                    /\ req'[r].now = clock)
     /\ \A r \in Slots :
          (req[r].kind = "checkInTicket" /\ req[r].pc = "update"
           /\ req'[r].pc = "done")
          => /\ resp'.success /\ resp'.status = 200
             /\ \E t \in db'.tickets :
                  /\ t.uniqueCode = req[r].uniqueCode
                  /\ t.status = "checked_in"
                  /\ t.checkInTime = req[r].now]_vars

\* a ticket has been checked in with a scan made half an hour before the
\* start of its event
C26_Witness ==
  /\ resp.op = "checkInTicket" /\ resp.success
  /\ \E t \in db.tickets :
       /\ t.uniqueCode = resp.uniqueCode
       /\ t.status = "checked_in"
       /\ t.checkInTime = db.events[t.eventId].startTime - 1

\* C27: when creating the check-in notification fails, the ticket is checked
\* in with the time and the admin of the request, no notification is added,
\* and checkInTicket reports success.
C27_CheckInNotificationBestEffort ==
  [][\A r \in Slots :
       ( /\ req[r].kind = "checkInTicket" /\ req[r].pc = "update"
         /\ req'[r].pc = "done"
         /\ resp'.cause = "notification_failed" )
       => /\ resp'.success /\ resp'.status = 200
          /\ db'.notifications = db.notifications
          /\ \E t \in db'.tickets :
               /\ t.uniqueCode = req[r].uniqueCode
               /\ t.status = "checked_in"
               /\ t.checkInTime = req[r].now
               /\ t.checkedInByUserId = req[r].userId]_vars

\* a check-in whose notification failed has reported success; the ticket is
\* checked in and no check-in notification exists
C27_Witness ==
  /\ resp.op = "checkInTicket" /\ resp.success
  /\ resp.cause = "notification_failed"
  /\ \E t \in db.tickets :
       t.uniqueCode = resp.uniqueCode /\ t.status = "checked_in"
  /\ \A i \in DOMAIN db.notifications :
       db.notifications[i].type # "checkin_success"

\* an order line references ticket type id
Referenced(id) ==
  \E o \in DOMAIN db.orders : \E i \in DOMAIN db.orders[o].orderItems :
    db.orders[o].orderItems[i].ticketTypeId = id

\* C28: once an order line references a ticket type, no step changes the
\* quota of the ticket type.
C28_QuotaImmutableOnceOrdered ==
  [][\A id \in TicketTypeIds :
       Referenced(id) => db'.ticketTypes[id].quota = db.ticketTypes[id].quota]_vars

\* C29: no step changes the totalAmount or a line's pricePerTicket of an
\* order that exists, whatever updateTicketType does to prices; and the
\* owner's manualCheckout of a pending order with a numeric amount is
\* rejected as insufficient exactly when the amount is below the totalAmount
\* stored with the order.
C29_PriceIsSnapshot ==
  [][/\ \A o \in DOMAIN db.orders :
          /\ db'.orders[o].totalAmount = db.orders[o].totalAmount
          /\ db'.orders[o].orderItems = db.orders[o].orderItems
     /\ \A r \in Slots :
          (req[r].pc = "idle" /\ req'[r].pc # "idle")
          => \A o \in DOMAIN db.orders : \A amount \in PaymentAmounts \ {NaN} :
             \A method \in PaymentMethodInputs :
               ( /\ db.orders[o].paymentStatus = "pending"
                 /\ ManualCheckoutRead(r, db.orders[o].userId, o, amount,
                                       method) )
               => ( (resp'.message = "insufficient_payment")
                    <=> (amount < db.orders[o].totalAmount) )]_vars

\* an order placed at price 10 has been settled by a manualCheckout after the
\* price of its ticket type had been raised; its total and its line are still
\* at 10
C29_Witness ==
  /\ resp.op = "manualCheckout" /\ resp.settled
  /\ db.orders[resp.orderId].paymentStatus = "paid"
  /\ db.orders[resp.orderId].totalAmount = 10
  /\ db.orders[resp.orderId].orderItems[1].pricePerTicket = 10
  /\ db.ticketTypes[db.orders[resp.orderId].orderItems[1].ticketTypeId].price = 15

\* C30: every ticket has the userId of the order its line belongs to, and
\* the ticket type of that line and the event of that ticket type.
C30_TicketOwnedByBuyer ==
  \A t \in db.tickets :
    /\ t.orderId \in DOMAIN db.orders
    /\ t.line \in DOMAIN db.orders[t.orderId].orderItems
    /\ t.userId = db.orders[t.orderId].userId
    /\ t.ticketTypeId = db.orders[t.orderId].orderItems[t.line].ticketTypeId
    /\ t.eventId = db.ticketTypes[t.ticketTypeId].eventId

\* a callback of the gateway has settled an order, and the tickets of its
\* two lines are the buyer's
C30_Witness ==
  /\ resp.op = "handlePaymentCallback" /\ resp.settled
  /\ Cardinality({t \in db.tickets :
                    /\ t.orderId = resp.orderId
                    /\ t.userId = db.orders[resp.orderId].userId}) = 2

\* request r applies in this step the writes of a settlement, a release or
\* a cancellation it decided on when it read order o as pending
AppliesDecision(r, o) ==
  /\ req[r].kind \in {"cancelOrder", "manualCheckout", "handlePaymentCallback"}
  /\ req[r].pc \in {"tx", "revert", "psoTx"}
  /\ req[r].orderId = o
  /\ req'[r].pc = "done"

\* C31: when an order has left pending between the moment cancelOrder,
\* handlePaymentCallback or _processSuccessfulOrder read its status and the
\* moment that handler writes, the handler writes nothing: the order, the
\* sold counters and the tickets are as they were.
C31_NoStaleStatusWrite ==
  [][\A r \in Slots : \A o \in DOMAIN db.orders :
       (AppliesDecision(r, o) /\ db.orders[o].paymentStatus # "pending")
       => /\ db'.orders[o] = db.orders[o]
          /\ db'.ticketTypes = db.ticketTypes
          /\ db'.tickets = db.tickets]_vars

\* the rejections of the duplicate-purchase checks of createOrder
DuplicatePurchase == {"same_event", "already_has"}

\* C32, as claimed: when createOrder is rejected by one of the
\* duplicate-purchase checks, no increment of sold has been executed for any
\* item of the request.
C32_DuplicateBeforeAnyIncrement ==
  (resp.op = "createOrder" /\ resp.message \in DuplicatePurchase)
  => resp.incs = 0

\* C32, amended: the checks are made item by item, each before the increment
\* of its item: when one rejects an item, the increments executed are those
\* of the items before it, one each, and none for the rejected item or a later
\* one; the rejection rolls them back, so that no increment of the request is
\* committed.
C32_DuplicateBeforeOwnIncrement ==
  [][/\ \A r \in Slots :
          ( /\ req[r].pc = "idle" /\ req'[r].kind = "createOrder"
            /\ req'[r].acc.err \in DuplicatePurchase )
          => /\ db' = db
             /\ req'[r].acc.incs # <<>>
                => \A items \in ItemLists :
                     CreateOrderBegin(r, req'[r].userId, items)
                     => LET incs == req'[r].acc.incs IN
                        /\ Len(incs) < Len(items)
                        /\ incs = SubSeq(items, 1, Len(incs))
     /\ \A r \in Slots :
          ( /\ req[r].kind = "createOrder" /\ req[r].pc = "tx"
            /\ req[r].acc.err \in DuplicatePurchase /\ req'[r].pc = "done" )
          => /\ ~resp'.success
             /\ resp'.message = req[r].acc.err
             /\ resp'.incs = Len(req[r].acc.incs)
             /\ db' = db]_vars

\* a createOrder has been rejected because the user already has an order
\* for the event of its second item, after the increment for its first item
\* had been executed; the sold counter of the first item is as before
C32_Witness ==
  /\ resp.op = "createOrder" /\ ~resp.success
  /\ resp.message = "already_has"
  /\ resp.incs = 1
  /\ Len(db.orders) = 1
  /\ \A id \in TicketTypeIds :
       db.ticketTypes[id].sold = LineCount(db.orders[1], id)

\* C33: a createOrder rejected as sold out, as ticket type not found or
\* because the user already has a pending or paid order for the event is
\* answered with status 400; status 500 is for failures of the store only,
\* never for a rejection of the request.
C33_CreateFailuresClassified ==
  (resp.op = "createOrder" /\ ~resp.success)
  => /\ resp.message \in {"sold_out", "not_found", "already_has"}
        => resp.status = 400
     /\ resp.status = 500
        => resp.message \notin {"sold_out", "not_found", "already_has"}

\* the sum of the pricePerTicket of order lines
RECURSIVE LinePriceSum(_)
LinePriceSum(lines) ==
  IF lines = <<>> THEN 0
  ELSE Head(lines).pricePerTicket + LinePriceSum(Tail(lines))

\* the totalAmount of every order is the sum of the prices of its lines
TotalIsSumOfLines ==
  \A o \in DOMAIN db.orders :
    db.orders[o].totalAmount = LinePriceSum(db.orders[o].orderItems)

\* C34: in every state, before and after every step, the totalAmount of
\* every order is the sum of the pricePerTicket of its lines; the lines a
\* createOrder builds carry the price its transaction reads for their ticket
\* type, and the order it inserts is pending, with these lines and their sum
\* as its total, whatever updateTicketType does to the prices meanwhile.
C34_TotalIsSumOfLinePrices ==
  [][/\ TotalIsSumOfLines
     /\ TotalIsSumOfLines'
     /\ \A r \in Slots :
          (req[r].pc = "idle" /\ req'[r].kind = "createOrder")
          => LET data == req'[r].acc.data IN
             /\ \A i \in DOMAIN data :
                  data[i].pricePerTicket
                    = db.ticketTypes[data[i].ticketTypeId].price
             /\ req'[r].acc.total = LinePriceSum(data)
     /\ \A r \in Slots :
          ( /\ req[r].kind = "createOrder" /\ req[r].pc = "tx"
            /\ req'[r].pc = "done" /\ resp'.success )
          => LET o == Len(db'.orders) IN
             /\ o = Len(db.orders) + 1
             /\ db'.orders[o].paymentStatus = "pending"
             /\ db'.orders[o].orderItems = req[r].acc.data
             /\ db'.orders[o].totalAmount = LinePriceSum(req[r].acc.data)]_vars

\* an order of two lines has been created after the price of the ticket
\* type of one had been raised: it is pending and its total is the raised
\* price plus the price of the other
C34_Witness ==
  /\ resp.op = "createOrder" /\ resp.success
  /\ db.orders[resp.orderId].paymentStatus = "pending"
  /\ Len(db.orders[resp.orderId].orderItems) = 2
  /\ \E i \in 1..2 : db.orders[resp.orderId].orderItems[i].pricePerTicket = 15
  /\ db.orders[resp.orderId].totalAmount = 35

\* C35: after a successful updateTicketType with a new quantity on a ticket
\* type that has sold > 0, the ticket type has sold <= quota.
C35_UpdateKeepsSoldWithinQuota ==
  [][\A r \in Slots :
       ( /\ req[r].kind = "updateTicketType" /\ req[r].pc = "update"
         /\ req'[r].pc = "done"
         /\ resp'.success
         /\ req[r].update.quantity # NULL
         /\ db.ticketTypes[req[r].update.id].sold > 0 )
       => db'.ticketTypes[req[r].update.id].sold
            <= db'.ticketTypes[req[r].update.id].quota]_vars

\* C36: in every state a ticket is checked_in if and only if its checkInTime
\* is set, and if and only if its checkedInByUserId is set; an active ticket
\* has neither.
C36_CheckInFieldsTogether ==
  \A t \in db.tickets :
    /\ t.status \in {"active", "checked_in"}
    /\ (t.status = "checked_in") <=> (t.checkInTime # NULL)
    /\ (t.status = "checked_in") <=> (t.checkedInByUserId # NULL)
    /\ t.checkInTime # NULL => t.checkInTime \in 1..MaxClock
    /\ t.checkedInByUserId # NULL => t.checkedInByUserId \in Admins

\* a check-in has succeeded: the ticket has status, time and admin, and the
\* other ticket of the order is active with neither time nor admin
C36_Witness ==
  /\ resp.op = "checkInTicket" /\ resp.success
  /\ \E t \in db.tickets :
       /\ t.uniqueCode = resp.uniqueCode
       /\ t.status = "checked_in"
       /\ t.checkInTime # NULL /\ t.checkedInByUserId \in Admins
  /\ \E t \in db.tickets :
       /\ t.status = "active"
       /\ t.checkInTime = NULL /\ t.checkedInByUserId = NULL

\* the number of lines on ticket type id of the orders that are pending or
\* paid
RECURSIVE OpenLineCount(_, _)
OpenLineCount(id, o) ==
  IF o = 0 THEN 0
  ELSE (IF db.orders[o].paymentStatus \in {"pending", "paid"}
        THEN LineCount(db.orders[o], id) ELSE 0)
       + OpenLineCount(id, o - 1)

\* C37: in every committed state, whatever the interleaving of createOrder,
\* cancelOrder, manualCheckout and handlePaymentCallback, the sold counter of
\* each ticket type equals the number of order lines on it whose order is
\* pending or paid.
C37_LedgerConservation ==
  \A id \in TicketTypeIds : Sold(id) = OpenLineCount(id, Len(db.orders))

\* C38: in every state, whatever the interleaving of the settlement,
\* callback and cancel requests on an order, the paidAt of the order is set
\* if and only if its paymentStatus is paid.
C38_PaidAtIffPaid ==
  \A o \in DOMAIN db.orders :
    (db.orders[o].paidAt # NULL) <=> (db.orders[o].paymentStatus = "paid")

\* the errors thrown while the transaction of _processSuccessfulOrder issues
\* the tickets and the notification of an order it read as pending
IssuanceFailures == {"qr_failed", "duplicate_code", "notification_failed"}

\* order o has exactly one ticket per line in the store view
OneTicketPerLine(view, o) ==
  /\ \A i \in DOMAIN view.orders[o].orderItems :
       Cardinality({t \in view.tickets : t.orderId = o /\ t.line = i}) = 1
  /\ \A t \in view.tickets :
       t.orderId = o => t.line \in DOMAIN view.orders[o].orderItems

\* a callback with capture or settlement, or the owner's manualCheckout,
\* that starts now on order o and runs alone passes every status check, and
\* when its issuance does not fail it leaves the order paid with exactly one
\* ticket per line and every sold counter as it is
RetrySettles(o) ==
  LET order == db.orders[o]
      ok(codes) == IssueTickets(db, o, 1, codes, 0,
                                [err |-> "none", tickets |-> {}]).err = "none"
  IN /\ ~AlreadyFinalized(order)
     /\ ~CheckoutNotPending(order)
     /\ StillPending(order)
     /\ MapStatus("capture") = "paid" /\ MapStatus("settlement") = "paid"
     /\ \A codes \in CodeChoices(db.tickets, Len(order.orderItems)) :
          ok(codes)
          => \A reference \in {GatewayReference, ManualReference} :
               LET after == Settled(db, o, clock, "gateway", reference, codes)
               IN /\ after.orders[o].paymentStatus = "paid"
                  /\ OneTicketPerLine(after, o)
                  /\ after.ticketTypes = db.ticketTypes

\* C39: when the settlement of a callback with capture or settlement fails
\* while issuing the tickets of an order that is pending, nothing of it
\* remains: the order is pending as it was, its inventory is still reserved
\* and it has no ticket; and from the state the failure leaves, a later
\* callback or manualCheckout on the order whose issuance does not fail
\* takes it to paid with exactly one ticket per line.
C39_FailedIssuanceRetriable ==
  [][( /\ resp'.op = "handlePaymentCallback"
       /\ resp'.transactionStatus \in {"capture", "settlement"}
       /\ resp'.cause \in IssuanceFailures )
     => \A o \in DOMAIN db.orders :
          ( /\ db.orders[o].paymentStatus = "pending"
            /\ \E cause \in IssuanceFailures : SettlementThrew(o, cause) )
          => /\ db' = db
             /\ db'.orders[o].paymentStatus = "pending"
             /\ \A id \in TicketTypeIds :
                  db'.ticketTypes[id].sold = db.ticketTypes[id].sold
             /\ \A t \in db'.tickets : t.orderId # o
             /\ RetrySettles(o)']_vars

\* the settlement of a callback has failed on the QR code of the second
\* line of an order: the order is pending with both units reserved and no
\* ticket, and a settlement started now has codes with which it succeeds
C39_Witness ==
  /\ resp.op = "handlePaymentCallback"
  /\ resp.transactionStatus \in {"capture", "settlement"}
  /\ resp.cause = "qr_failed" /\ resp.issued = 1
  /\ db.orders[resp.orderId].paymentStatus = "pending"
  /\ \A i \in 1..2 :
       db.ticketTypes[db.orders[resp.orderId].orderItems[i].ticketTypeId].sold = 1
  /\ RetrySettles(resp.orderId)
  /\ \E codes \in CodeChoices(db.tickets, 2) :
       OneTicketPerLine(Settled(db, resp.orderId, clock, "gateway",
                                GatewayReference, codes), resp.orderId)

====
